---- MODULE Spec2Model ----
(***************************************************************************)
(* go-rtorrent: the XML-RPC client (xmlrpc.Client.Call), the wire codec it *)
(* calls (Marshal / Unmarshal) and the rtorrent facade built on Call.      *)
(*                                                                         *)
(* Go strings are sequences of one-character strings, so that escaping,    *)
(* decimal formatting and parsing are computed and not assumed.  Decoded   *)
(* values are tagged records; a document is a sequence of markup tokens    *)
(* whose text tokens carry the escaped characters.                         *)
(***************************************************************************)
EXTENDS Integers, Sequences, FiniteSets, TLC

VARIABLES
    client,     \* the xmlrpc.Client: addr, transport, BasicUser, BasicPass
    fpc,        \* facade position: "idle", "calling", "done"
    op,         \* the facade operation in progress
    call,       \* name and args of the Call in progress
    cpc,        \* Call position
    data,       \* the request buffer Marshal fills
    req,        \* the request built by http.NewRequestWithContext
    doErr,      \* the error httpClient.Do returned ("" when none)
    respBody,   \* the response body, a document
    dec,        \* the decoder's state while Unmarshal runs
    ret,        \* what Call returned: val and err
    fres,       \* what the facade operation returned
    steps,      \* the steps this Call invocation has taken, in order
    cin,        \* codec check: the value to encode
    cdoc,       \* codec check: the encoded document
    cout,       \* codec check: the decoded response
    cphase,     \* codec check: "init", "encoded", "decoded"
    seq,        \* GetTorrent / GetStatus: calls issued so far and the fields read
    procs,      \* concurrent Calls: each invocation's own locals
    bufs        \* concurrent Calls: the contents of the buffers allocated

callVars == <<client, fpc, op, call, cpc, data, req, doErr, respBody, dec, ret,
              fres, steps>>
codecVars == <<cin, cdoc, cout, cphase>>
concVars == <<procs, bufs>>
vars == <<client, fpc, op, call, cpc, data, req, doErr, respBody, dec, ret,
          fres, steps, cin, cdoc, cout, cphase, seq, procs, bufs>>

(***************************************************************************)
(* Bounds of the model.                                                    *)
(***************************************************************************)
MaxStrLen == 2      \* longest string drawn for the round trip
MaxRows == 2        \* most rows of a d.multicall2 response
NumProcs == 2       \* Calls in flight on one Client at the same time

(***************************************************************************)
(* Values: what Unmarshal hands back and Marshal accepts.                  *)
(***************************************************************************)
NilVal == [t |-> "nil"]
IntV(i) == [t |-> "int", i |-> i]
BoolV(b) == [t |-> "bool", b |-> b]
StrV(s) == [t |-> "string", s |-> s]
ArrV(a) == [t |-> "array", a |-> a]
StructV(m) == [t |-> "struct", m |-> m]
\* a []byte: b is the sequence of its bytes, each in 0..255
BytesV(b) == [t |-> "base64", b |-> b]
Unsupported == [t |-> "unsupported"]

(***************************************************************************)
(* Decimal text of integers (strconv.Itoa / strconv.Atoi).                 *)
(***************************************************************************)
Digits == <<"0", "1", "2", "3", "4", "5", "6", "7", "8", "9">>
DigitSet == {Digits[k] : k \in 1..10}
DigitVal(c) == (CHOOSE k \in 1..10 : Digits[k] = c) - 1

RECURSIVE NatToDec(_)
NatToDec(n) ==
    IF n < 10 THEN <<Digits[n + 1]>>
    ELSE NatToDec(n \div 10) \o <<Digits[(n % 10) + 1]>>

Itoa(i) == IF i < 0 THEN <<"-">> \o NatToDec(-i) ELSE NatToDec(i)

RECURSIVE DecToNat(_)
DecToNat(s) ==
    IF Len(s) = 0 THEN 0
    ELSE 10 * DecToNat(SubSeq(s, 1, Len(s) - 1)) + DigitVal(s[Len(s)])

AllDigits(s) == Len(s) > 0 /\ \A k \in 1..Len(s) : s[k] \in DigitSet

\* strconv.Atoi accepts an optional sign followed by at least one digit
IsDecimal(s) ==
    /\ Len(s) > 0
    /\ IF s[1] \in {"-", "+"} THEN AllDigits(Tail(s)) ELSE AllDigits(s)

Atoi(s) ==
    IF s[1] = "-" THEN 0 - DecToNat(Tail(s))
    ELSE IF s[1] = "+" THEN DecToNat(Tail(s))
    ELSE DecToNat(s)

\* Int is a signed 32-bit integer: whether the decimal text s denotes one.
\* The text is compared digit by digit, so that texts of any length are told
\* apart from the numbers an Int holds.
RECURSIVE StripZeros(_)
StripZeros(s) == IF Len(s) > 1 /\ s[1] = "0" THEN StripZeros(Tail(s)) ELSE s

RECURSIVE DigitsLE(_, _)
DigitsLE(a, b) ==
    IF Len(a) = 0 THEN TRUE
    ELSE IF DigitVal(a[1]) < DigitVal(b[1]) THEN TRUE
    ELSE IF DigitVal(a[1]) > DigitVal(b[1]) THEN FALSE
    ELSE DigitsLE(Tail(a), Tail(b))

MaxInt32Text == <<"2", "1", "4", "7", "4", "8", "3", "6", "4", "7">>
MinInt32Text == <<"2", "1", "4", "7", "4", "8", "3", "6", "4", "8">>

InInt32(s) ==
    LET sig == StripZeros(IF s[1] \in {"-", "+"} THEN Tail(s) ELSE s)
        lim == IF s[1] = "-" THEN MinInt32Text ELSE MaxInt32Text
    IN Len(sig) < Len(lim) \/ (Len(sig) = Len(lim) /\ DigitsLE(sig, lim))

(***************************************************************************)
(* Escaping of XML-significant characters in text.                         *)
(***************************************************************************)
\* A variant of EscapeChar with a slip in it: the ampersand is left as it is
EscapeCharNoAmp(c) ==
    CASE c = "<" -> <<"&", "l", "t", ";">>
      [] c = ">" -> <<"&", "g", "t", ";">>
      [] c = "'" -> <<"&", "a", "p", "o", "s", ";">>
      [] c = "\"" -> <<"&", "q", "u", "o", "t", ";">>
      [] OTHER -> <<c>>

EscapeChar(c) ==
    CASE c = "&" -> <<"&", "a", "m", "p", ";">>
      [] c = "<" -> <<"&", "l", "t", ";">>
      [] c = ">" -> <<"&", "g", "t", ";">>
      [] c = "'" -> <<"&", "a", "p", "o", "s", ";">>
      [] c = "\"" -> <<"&", "q", "u", "o", "t", ";">>
      [] OTHER -> <<c>>

RECURSIVE EscapeString(_)
EscapeString(s) ==
    IF Len(s) = 0 THEN <<>> ELSE EscapeChar(Head(s)) \o EscapeString(Tail(s))

Entities == { <<"&", <<"&", "a", "m", "p", ";">> >>,
              <<"<", <<"&", "l", "t", ";">> >>,
              <<">", <<"&", "g", "t", ";">> >>,
              <<"'", <<"&", "a", "p", "o", "s", ";">> >>,
              <<"\"", <<"&", "q", "u", "o", "t", ";">> >> }

HasPrefix(s, p) == Len(s) >= Len(p) /\ SubSeq(s, 1, Len(p)) = p

\* The text of a character-data token, unescaped; ok is FALSE for a raw '<'
\* or an '&' that starts no known entity (malformed markup).
RECURSIVE UnescapeString(_)
UnescapeString(s) ==
    IF Len(s) = 0 THEN [ok |-> TRUE, s |-> <<>>]
    ELSE IF Head(s) = "<" THEN [ok |-> FALSE, s |-> <<>>]
    ELSE IF Head(s) = "&" THEN
        LET hits == {e \in Entities : HasPrefix(s, e[2])} IN
        IF hits = {} THEN [ok |-> FALSE, s |-> <<>>]
        ELSE LET e == CHOOSE e \in hits : TRUE
                 rest == UnescapeString(SubSeq(s, Len(e[2]) + 1, Len(s)))
             IN [ok |-> rest.ok, s |-> <<e[1]>> \o rest.s]
    ELSE LET rest == UnescapeString(Tail(s))
         IN [ok |-> rest.ok, s |-> <<Head(s)>> \o rest.s]

(***************************************************************************)
(* Documents: sequences of markup tokens.                                  *)
(***************************************************************************)
Open(n) == [k |-> "open", n |-> n, s |-> <<>>]
Close(n) == [k |-> "close", n |-> n, s |-> <<>>]
SelfClose(n) == [k |-> "selfclose", n |-> n, s |-> <<>>]
Text(s) == [k |-> "text", n |-> "", s |-> s]
Prolog == [k |-> "prolog", n |-> "xml", s |-> <<>>]
EOFTok == [k |-> "eof", n |-> "", s |-> <<>>]

Tok(doc, p) == IF p >= 1 /\ p <= Len(doc) THEN doc[p] ELSE EOFTok

Elem(n, body) == <<Open(n)>> \o body \o <<Close(n)>>

\* Character data: the empty string leaves no token between the tags
TextOf(s) == IF Len(s) = 0 THEN <<>> ELSE <<Text(s)>>

\* A set as a sequence, in one fixed order (stable member ordering)
RECURSIVE SeqOf(_)
SeqOf(S) ==
    IF S = {} THEN <<>>
    ELSE LET x == CHOOSE x \in S : TRUE IN <<x>> \o SeqOf(S \ {x})

(***************************************************************************)
(* Encoder: Marshal(data, name, args...).                                  *)
(***************************************************************************)
\* The base64 alphabet, digit 0 first
Base64Chars ==
    <<"A", "B", "C", "D", "E", "F", "G", "H", "I", "J", "K", "L", "M", "N", "O",
      "P", "Q", "R", "S", "T", "U", "V", "W", "X", "Y", "Z", "a", "b", "c", "d",
      "e", "f", "g", "h", "i", "j", "k", "l", "m", "n", "o", "p", "q", "r", "s",
      "t", "u", "v", "w", "x", "y", "z", "0", "1", "2", "3", "4", "5", "6", "7",
      "8", "9", "+", "/">>

B64(n) == Base64Chars[n + 1]

\* Standard base64 with padding: three bytes make four digits
RECURSIVE Base64(_)
Base64(b) ==
    IF Len(b) = 0 THEN <<>>
    ELSE IF Len(b) = 1
         THEN <<B64(b[1] \div 4), B64((b[1] % 4) * 16), "=", "=">>
    ELSE IF Len(b) = 2
         THEN <<B64(b[1] \div 4), B64((b[1] % 4) * 16 + b[2] \div 16),
                B64((b[2] % 16) * 4), "=">>
    ELSE <<B64(b[1] \div 4), B64((b[1] % 4) * 16 + b[2] \div 16),
           B64((b[2] % 16) * 4 + b[3] \div 64), B64(b[3] % 64)>>
         \o Base64(SubSeq(b, 4, Len(b)))

RECURSIVE Encodable(_)
Encodable(v) ==
    CASE v.t \in {"int", "bool", "string", "base64"} -> TRUE
      [] v.t = "array" -> \A k \in 1..Len(v.a) : Encodable(v.a[k])
      [] v.t = "struct" -> \A mem \in v.m : Encodable(mem[2])
      [] OTHER -> FALSE

RECURSIVE EncodeValue(_)
EncodeValue(v) ==
    CASE v.t = "int" -> Elem("i4", <<Text(Itoa(v.i))>>)
      [] v.t = "bool" -> Elem("boolean", <<Text(IF v.b THEN <<"1">> ELSE <<"0">>)>>)
      [] v.t = "string" -> Elem("string", TextOf(EscapeString(v.s)))
      [] v.t = "base64" -> Elem("base64", TextOf(Base64(v.b)))
      [] v.t = "array" ->
            LET RECURSIVE items(_)
                items(a) == IF Len(a) = 0 THEN <<>>
                            ELSE Elem("value", EncodeValue(Head(a))) \o items(Tail(a))
            IN Elem("array", Elem("data", items(v.a)))
      [] v.t = "struct" ->
            LET RECURSIVE members(_)
                members(ms) ==
                    IF Len(ms) = 0 THEN <<>>
                    ELSE Elem("member",
                              Elem("name", TextOf(EscapeString(Head(ms)[1])))
                              \o Elem("value", EncodeValue(Head(ms)[2])))
                         \o members(Tail(ms))
            IN Elem("struct", members(SeqOf(v.m)))
      [] OTHER -> <<>>

RECURSIVE EncodeParams(_)
EncodeParams(args) ==
    IF Len(args) = 0 THEN <<>>
    ELSE Elem("param", Elem("value", EncodeValue(Head(args))))
         \o EncodeParams(Tail(args))

\* Marshal: ok is FALSE when an argument converts to no Value
Marshal(name, args) ==
    IF \A k \in 1..Len(args) : Encodable(args[k])
    THEN [ok |-> TRUE,
          doc |-> <<Prolog>> \o Elem("methodCall",
                      Elem("methodName", TextOf(name))
                      \o Elem("params", EncodeParams(args)))]
    ELSE [ok |-> FALSE, doc |-> <<>>]

\* What a server writes: a success response wrapping one value
ResponseDoc(v) ==
    Elem("methodResponse",
         Elem("params", Elem("param", Elem("value", EncodeValue(v)))))

\* What a server writes: a fault response
FaultDoc(code, text) ==
    Elem("methodResponse",
         Elem("fault", Elem("value", EncodeValue(StructV({
             << <<"f", "a", "u", "l", "t", "C", "o", "d", "e">>, IntV(code) >>,
             << <<"f", "a", "u", "l", "t", "S", "t", "r", "i", "n", "g">>,
                StrV(text) >> })))))

(***************************************************************************)
(* Decoder: Unmarshal(body).  A recursive-descent walk of the envelope,    *)
(* taken one state at a time: Start, InEnvelope, InParams or InFault,      *)
(* InValue, then Done or Error.                                            *)
(***************************************************************************)
PErr(kind) == [err |-> kind, val |-> NilVal, pos |-> 0]
POk(v, p) == [err |-> "", val |-> v, pos |-> p]

\* The tokens toks are expected at pos: "" when all are there
RECURSIVE Expect(_, _, _)
Expect(doc, pos, toks) ==
    IF Len(toks) = 0 THEN ""
    ELSE IF Tok(doc, pos) = EOFTok THEN "IncompleteInput"
    ELSE IF Tok(doc, pos) # Head(toks) THEN "ParseError"
    ELSE Expect(doc, pos + 1, Tail(toks))

\* The text of a scalar element <n>TEXT</n> that opens at pos
ScalarText(doc, pos, n) ==
    LET t1 == Tok(doc, pos + 1) IN
    IF t1 = EOFTok THEN [err |-> "IncompleteInput", s |-> <<>>, pos |-> 0]
    ELSE IF t1 = Close(n) THEN [err |-> "", s |-> <<>>, pos |-> pos + 2]
    ELSE IF t1.k # "text" THEN [err |-> "ParseError", s |-> <<>>, pos |-> 0]
    ELSE LET u == UnescapeString(t1.s)
             e == Expect(doc, pos + 2, <<Close(n)>>)
         IN IF ~u.ok THEN [err |-> "ParseError", s |-> <<>>, pos |-> 0]
            ELSE IF e # "" THEN [err |-> e, s |-> <<>>, pos |-> 0]
            ELSE [err |-> "", s |-> u.s, pos |-> pos + 3]

MemberNames(ms) == {mem[1] : mem \in ms}

\* <value>VALUE</value> opening at pos; pos of the result is the token after it
RECURSIVE ParseValue(_, _)
ParseValue(doc, pos) ==
    LET t0 == Tok(doc, pos)
        t1 == Tok(doc, pos + 1)
        closeValue(r) ==
            IF r.err # "" THEN PErr(r.err)
            ELSE LET e == Expect(doc, r.pos, <<Close("value")>>)
                 IN IF e # "" THEN PErr(e) ELSE POk(r.val, r.pos + 1)
        scalar(n) ==
            LET x == ScalarText(doc, pos + 1, n) IN
            IF x.err # "" THEN PErr(x.err)
            ELSE IF n = "string" THEN POk(StrV(x.s), x.pos)
            ELSE IF n = "boolean" THEN
                IF x.s = <<"1">> THEN POk(BoolV(TRUE), x.pos)
                ELSE IF x.s = <<"0">> THEN POk(BoolV(FALSE), x.pos)
                ELSE PErr("ParseError")
            ELSE IF IsDecimal(x.s) /\ InInt32(x.s) THEN POk(IntV(Atoi(x.s)), x.pos)
            ELSE PErr("ParseError")
        RECURSIVE items(_, _)
        items(p, acc) ==
            IF Tok(doc, p) = EOFTok THEN PErr("IncompleteInput")
            ELSE IF Tok(doc, p) = Close("data") THEN POk(ArrV(acc), p)
            ELSE LET r == ParseValue(doc, p)
                 IN IF r.err # "" THEN PErr(r.err)
                    ELSE items(r.pos, Append(acc, r.val))
        RECURSIVE members(_, _)
        members(p, acc) ==
            IF Tok(doc, p) = EOFTok THEN PErr("IncompleteInput")
            ELSE IF Tok(doc, p) = Close("struct") THEN POk(StructV(acc), p + 1)
            ELSE IF Tok(doc, p) # Open("member") THEN PErr("ProtocolError")
            ELSE IF Tok(doc, p + 1) = EOFTok THEN PErr("IncompleteInput")
            ELSE IF Tok(doc, p + 1) # Open("name") THEN PErr("ProtocolError")
            ELSE LET nm == ScalarText(doc, p + 1, "name")
                     r == ParseValue(doc, nm.pos)
                     e == Expect(doc, r.pos, <<Close("member")>>)
                 IN IF nm.err # "" THEN PErr(nm.err)
                    ELSE IF r.err # "" THEN PErr(r.err)
                    ELSE IF e # "" THEN PErr(e)
                    ELSE IF nm.s \in MemberNames(acc) THEN PErr("ProtocolError")
                    ELSE members(r.pos + 1, acc \cup {<<nm.s, r.val>>})
    IN
    IF t0 = EOFTok THEN PErr("IncompleteInput")
    ELSE IF t0 = SelfClose("value") THEN POk(NilVal, pos + 1)
    ELSE IF t0 # Open("value") THEN PErr("ProtocolError")
    ELSE IF t1 = EOFTok THEN PErr("IncompleteInput")
    ELSE IF t1 = Close("value") THEN POk(StrV(<<>>), pos + 2)
    ELSE IF t1.k = "text" THEN
        LET u == UnescapeString(t1.s) IN
        closeValue(IF u.ok THEN POk(StrV(u.s), pos + 2) ELSE PErr("ParseError"))
    ELSE IF t1.k # "open" THEN PErr("ParseError")
    ELSE IF t1.n \in {"i4", "int", "boolean", "string"} THEN
        closeValue(scalar(t1.n))
    ELSE IF t1.n = "array" THEN
        LET e == Expect(doc, pos + 2, <<Open("data")>>)
            r == items(pos + 3, <<>>)
            c == Expect(doc, r.pos, <<Close("data"), Close("array")>>)
        IN IF e # "" THEN PErr(IF e = "ParseError" THEN "ProtocolError" ELSE e)
           ELSE IF r.err # "" THEN PErr(r.err)
           ELSE IF c # "" THEN PErr(c)
           ELSE closeValue(POk(r.val, r.pos + 2))
    ELSE IF t1.n = "struct" THEN closeValue(members(pos + 2, {}))
    ELSE PErr("ProtocolError")

NoFault == [present |-> FALSE, code |-> 0, text |-> <<>>]
FaultOf(code, text) == [present |-> TRUE, code |-> code, text |-> text]

FaultCodeName == <<"f", "a", "u", "l", "t", "C", "o", "d", "e">>
FaultStringName == <<"f", "a", "u", "l", "t", "S", "t", "r", "i", "n", "g">>

Member(v, name) == (CHOOSE mem \in v.m : mem[1] = name)[2]

\* asInt: strict by tag, except that a String of base-10 digits is parsed
AsInt(v) ==
    IF v.t = "int" THEN [ok |-> TRUE, i |-> v.i]
    ELSE IF v.t = "string" /\ IsDecimal(v.s) THEN [ok |-> TRUE, i |-> Atoi(v.s)]
    ELSE [ok |-> FALSE, i |-> 0]

DecStart == [state |-> "Start", pos |-> 1, root |-> "", branch |-> "",
             val |-> NilVal, fault |-> NoFault, err |-> ""]

DecError(d, kind) ==
    [d EXCEPT !.state = "Error", !.val = NilVal, !.fault = NoFault, !.err = kind]

DecTerminal(d) == d.state \in {"Done", "Error"}

\* The fault a decoded fault struct carries; ok is FALSE when it is none
FaultFrom(v) ==
    IF v.t # "struct" \/ ~({FaultCodeName, FaultStringName} \subseteq MemberNames(v.m))
    THEN [ok |-> FALSE, fault |-> NoFault]
    ELSE LET c == AsInt(Member(v, FaultCodeName))
             m == Member(v, FaultStringName)
         IN IF c.ok /\ m.t = "string"
            THEN [ok |-> TRUE, fault |-> FaultOf(c.i, m.s)]
            ELSE [ok |-> FALSE, fault |-> NoFault]

\* A variant of AfterParam with a slip in it: what follows the first param is
\* not looked at
AfterParamFirstOnly(doc, pos, root) == Expect(doc, pos, <<Close("param")>>)

\* What must follow the value of the first param: the end of the param, no
\* second param, the end of the params and of the envelope ("" when so)
AfterParam(doc, pos, root) ==
    LET e1 == Expect(doc, pos, <<Close("param")>>)
        e2 == Expect(doc, pos + 1, <<Close("params"), Close(root)>>)
    IN IF e1 # "" THEN e1
       ELSE IF Tok(doc, pos + 1) = Open("param") THEN "ProtocolError"
       ELSE e2

\* One transition of the decoder over document doc
DecStep(doc, d) ==
    CASE d.state = "Start" ->
            LET p == IF Tok(doc, 1) = Prolog THEN 2 ELSE 1
                t == Tok(doc, p)
            IN IF t = EOFTok THEN DecError(d, "IncompleteInput")
               ELSE IF t.k # "open" THEN DecError(d, "ParseError")
               ELSE IF t.n \notin {"methodResponse", "methodCall"}
                    THEN DecError(d, "ProtocolError")
               ELSE [d EXCEPT !.state = "InEnvelope", !.pos = p + 1, !.root = t.n]
      [] d.state = "InEnvelope" ->
            LET nm == IF Tok(doc, d.pos) = Open("methodName")
                      THEN ScalarText(doc, d.pos, "methodName")
                      ELSE [err |-> "", s |-> <<>>, pos |-> d.pos]
                t == Tok(doc, nm.pos)
            IN IF nm.err # "" THEN DecError(d, nm.err)
               ELSE IF t = EOFTok THEN DecError(d, "IncompleteInput")
               ELSE IF t = Open("params")
                    THEN [d EXCEPT !.state = "InParams", !.pos = nm.pos + 1,
                                   !.branch = "params"]
               ELSE IF t = Open("fault")
                    THEN [d EXCEPT !.state = "InFault", !.pos = nm.pos + 1,
                                   !.branch = "fault"]
               ELSE DecError(d, "ProtocolError")
      [] d.state = "InParams" ->
            LET t == Tok(doc, d.pos)
            IN IF t = EOFTok THEN DecError(d, "IncompleteInput")
               ELSE IF t = Open("param")
                    THEN [d EXCEPT !.state = "InValue", !.pos = d.pos + 1]
               ELSE DecError(d, "ProtocolError")
      [] d.state = "InFault" ->
            LET t == Tok(doc, d.pos)
            IN IF t = EOFTok THEN DecError(d, "IncompleteInput")
               ELSE IF t = Open("value") THEN [d EXCEPT !.state = "InValue"]
               ELSE DecError(d, "ProtocolError")
      [] d.state = "InValue" ->
            LET r == ParseValue(doc, d.pos) IN
            IF r.err # "" THEN DecError(d, r.err)
            ELSE IF d.branch = "params" THEN
                LET e == AfterParam(doc, r.pos, d.root)
                IN IF e # "" THEN DecError(d, e)
                   ELSE [d EXCEPT !.state = "Done", !.pos = r.pos + 3, !.val = r.val]
            ELSE
                LET e == Expect(doc, r.pos, <<Close("fault"), Close(d.root)>>)
                    f == FaultFrom(r.val)
                IN IF e # "" THEN DecError(d, e)
                   ELSE IF ~f.ok THEN DecError(d, "ProtocolError")
                   ELSE [d EXCEPT !.state = "Done", !.pos = r.pos + 2,
                                  !.fault = f.fault]
      [] OTHER -> d

\* Unmarshal: the decoder run to its terminal state
RECURSIVE RunDecoder(_, _)
RunDecoder(doc, d) ==
    IF DecTerminal(d) THEN d
    ELSE CHOOSE r \in {RunDecoder(doc, n) : n \in {DecStep(doc, d)}} : TRUE

Unmarshal(doc) == RunDecoder(doc, DecStart)

(***************************************************************************)
(* Strings of the program, as character sequences.                         *)
(***************************************************************************)
ViewMain == <<"m", "a", "i", "n">>
DName == <<"d", ".", "n", "a", "m", "e">>
DLabel == <<"d", ".", "c", "u", "s", "t", "o", "m", "1">>
DSizeInBytes == <<"d", ".", "s", "i", "z", "e", "_", "b", "y", "t", "e", "s">>
DHash == <<"d", ".", "h", "a", "s", "h">>
DDirectory == <<"d", ".", "d", "i", "r", "e", "c", "t", "o", "r", "y">>
DIsActive == <<"d", ".", "i", "s", "_", "a", "c", "t", "i", "v", "e">>
DRatio == <<"d", ".", "r", "a", "t", "i", "o">>
DComplete == <<"d", ".", "c", "o", "m", "p", "l", "e", "t", "e">>
DCreationTime ==
    <<"d", ".", "c", "r", "e", "a", "t", "i", "o", "n", "_", "d", "a",
      "t", "e">>
DFinishedTime ==
    <<"d", ".", "t", "i", "m", "e", "s", "t", "a", "m", "p", ".", "f",
      "i", "n", "i", "s", "h", "e", "d">>
DStartedTime ==
    <<"d", ".", "t", "i", "m", "e", "s", "t", "a", "m", "p", ".", "s",
      "t", "a", "r", "t", "e", "d">>

CmdBindAddress ==
    <<"n", "e", "t", "w", "o", "r", "k", ".", "b", "i", "n", "d", "_",
      "a", "d", "d", "r", "e", "s", "s">>
CmdHostname ==
    <<"s", "y", "s", "t", "e", "m", ".", "h", "o", "s", "t", "n", "a",
      "m", "e">>
CmdDownTotal ==
    <<"t", "h", "r", "o", "t", "t", "l", "e", ".", "g", "l", "o", "b",
      "a", "l", "_", "d", "o", "w", "n", ".", "t", "o", "t", "a", "l">>
CmdDownRate ==
    <<"t", "h", "r", "o", "t", "t", "l", "e", ".", "g", "l", "o", "b",
      "a", "l", "_", "d", "o", "w", "n", ".", "r", "a", "t", "e">>
CmdUpTotal ==
    <<"t", "h", "r", "o", "t", "t", "l", "e", ".", "g", "l", "o", "b",
      "a", "l", "_", "u", "p", ".", "t", "o", "t", "a", "l">>
CmdUpRate ==
    <<"t", "h", "r", "o", "t", "t", "l", "e", ".", "g", "l", "o", "b",
      "a", "l", "_", "u", "p", ".", "r", "a", "t", "e">>
CmdMulticall2 ==
    <<"d", ".", "m", "u", "l", "t", "i", "c", "a", "l", "l", "2">>
CmdErase == <<"d", ".", "e", "r", "a", "s", "e">>
CmdStart == <<"d", ".", "s", "t", "a", "r", "t">>
CmdStop == <<"d", ".", "s", "t", "o", "p">>
CmdClose == <<"d", ".", "c", "l", "o", "s", "e">>
CmdOpen == <<"d", ".", "o", "p", "e", "n">>
CmdPause == <<"d", ".", "p", "a", "u", "s", "e">>
CmdResume == <<"d", ".", "r", "e", "s", "u", "m", "e">>
CmdIsActive == <<"d", ".", "i", "s", "_", "a", "c", "t", "i", "v", "e">>
CmdIsOpen == <<"d", ".", "i", "s", "_", "o", "p", "e", "n">>
CmdState == <<"d", ".", "s", "t", "a", "t", "e">>
CmdLoadNormal == <<"l", "o", "a", "d", ".", "n", "o", "r", "m", "a", "l">>
CmdLoadStart == <<"l", "o", "a", "d", ".", "s", "t", "a", "r", "t">>
CmdLoadRaw == <<"l", "o", "a", "d", ".", "r", "a", "w">>
CmdLoadRawStart ==
    <<"l", "o", "a", "d", ".", "r", "a", "w", "_", "s", "t", "a", "r", "t">>

\* fmt.Sprintf("%s.set=\"%s\"", f.Field, f.Value)
FieldValueString(f) ==
    f.Field \o <<".", "s", "e", "t", "=", "\"">> \o f.Value \o <<"\"">>

\* []byte(url): the bytes of the characters a URL is drawn from
ByteOf(c) ==
    CASE c = "h" -> 104
      [] c = "t" -> 116
      [] c = "p" -> 112
      [] c = ":" -> 58
      [] c = "/" -> 47
      [] OTHER -> 97

Bytes(str) == [k \in 1..Len(str) |-> ByteOf(str[k])]

TextXml == <<"t", "e", "x", "t", "/", "x", "m", "l">>
MethodPost == <<"P", "O", "S", "T">>
MethodGet == <<"G", "E", "T">>

\* Field.Query: the field followed by "="
Query(f) == f \o <<"=">>

(***************************************************************************)
(* Errors.  msg is the chain of messages errors.Wrap has put in front.     *)
(***************************************************************************)
NoErr == [kind |-> "nil", msg |-> <<>>, cause |-> "", code |-> 0, text |-> <<>>]
Err(kind) == [kind |-> kind, msg |-> <<>>, cause |-> "", code |-> 0, text |-> <<>>]
Wrap(err, m) == [err EXCEPT !.msg = <<m>> \o @]

\* errors.Errorf("Error: %v: %v", err, fault): the decoder's error, if any,
\* and the fault's code and message
FaultErr(err, fault) ==
    [kind |-> "fault", msg |-> <<>>, cause |-> err, code |-> fault.code,
     text |-> fault.text]

MsgMarshal ==
    <<"f", "a", "i", "l", "e", "d", " ", "t", "o", " ", "m", "a", "r",
      "s", "h", "a", "l", " ", "r", "e", "q", "u", "e", "s", "t">>
MsgRequest ==
    <<"c", "r", "e", "a", "t", "i", "n", "g", " ", "r", "e", "q", "u",
      "e", "s", "t", " ", "f", "a", "i", "l", "e", "d">>
MsgPost ==
    <<"P", "O", "S", "T", " ", "f", "a", "i", "l", "e", "d">>
XmlrpcCallFailed ==
    <<" ", "X", "M", "L", "R", "P", "C", " ", "c", "a", "l", "l", " ",
      "f", "a", "i", "l", "e", "d">>

(***************************************************************************)
(* The xmlrpc client and the request it builds.                            *)
(***************************************************************************)
AddrURL == <<"h", "t", "t", "p", ":", "/", "/", "h", "/", "R", "P", "C", "2">>
AddrToken == <<"R", "P", "C", "2">>
AddrEmpty == <<>>
Addrs == {AddrURL, AddrToken, AddrEmpty}

UserU == <<"u">>
PassP == <<"p">>

\* xmlrpc.NewClient: the client owns a plain http.Transport
NewClient(cfg) ==
    [addr |-> cfg.Addr, BasicUser |-> cfg.BasicUser, BasicPass |-> cfg.BasicPass,
     transport |-> "std"]

\* xmlrpc.NewClientWithHTTPClient: the caller's http.Client, no credentials
NewClientWithHTTPClient(addr, hc) ==
    [addr |-> addr, BasicUser |-> <<>>, BasicPass |-> <<>>, transport |-> hc]

Configs == [Addr : Addrs, BasicUser : {<<>>, UserU}, BasicPass : {<<>>, PassP}]

Clients ==
    {NewClient(cfg) : cfg \in Configs}
    \cup {NewClientWithHTTPClient(a, hc) : a \in Addrs, hc \in {"std", "custom"}}

Letters ==
    {"a", "b", "c", "d", "e", "f", "g", "h", "i", "j", "k", "l", "m", "n", "o",
     "p", "q", "r", "s", "t", "u", "v", "w", "x", "y", "z",
     "A", "B", "C", "D", "E", "F", "G", "H", "I", "J", "K", "L", "M", "N", "O",
     "P", "Q", "R", "S", "T", "U", "V", "W", "X", "Y", "Z"}

\* net/http: the characters of an HTTP token (the backquote, which no
\* address of the model holds, is left out)
TokenChars ==
    Letters \cup DigitSet
    \cup {"!", "#", "$", "%", "&", "'", "*", "+", "-", ".", "^", "_", "|", "~"}

ValidMethod(m) == Len(m) > 0 /\ \A k \in 1..Len(m) : m[k] \in TokenChars

\* net/url getScheme: the letters before the first ':', none when another
\* character comes first
RECURSIVE SchemeFrom(_, _)
SchemeFrom(u, k) ==
    IF k > Len(u) THEN <<>>
    ELSE IF u[k] \in Letters THEN SchemeFrom(u, k + 1)
    ELSE IF u[k] \in DigitSet \cup {"+", "-", "."}
         THEN (IF k = 1 THEN <<>> ELSE SchemeFrom(u, k + 1))
    ELSE IF u[k] = ":" /\ k > 1 THEN SubSeq(u, 1, k - 1)
    ELSE <<>>

URLScheme(u) == SchemeFrom(u, 1)

NoAuth == [set |-> FALSE, user |-> <<>>, pass |-> <<>>]
NoReq == [present |-> FALSE, Method |-> <<>>, URL |-> <<>>, ContentType |-> <<>>,
          Auth |-> NoAuth, Body |-> <<>>]

\* http.NewRequestWithContext(ctx, method, url, body)
NewRequestWithContext(method, url, body) ==
    LET m == IF Len(method) = 0 THEN MethodGet ELSE method IN
    IF ~ValidMethod(m) THEN [ok |-> FALSE, req |-> NoReq]
    ELSE [ok |-> TRUE,
          req |-> [present |-> TRUE, Method |-> m, URL |-> url,
                   ContentType |-> <<>>, Auth |-> NoAuth, Body |-> body]]

\* The request Call creates from the client and the marshalled buffer
CallRequest(c, buf) == NewRequestWithContext(c.addr, TextXml, buf)

\* A variant of addBasicAuth with a slip in it: one credential is enough
addBasicAuthEither(c, r) ==
    IF Len(c.BasicUser) > 0 \/ Len(c.BasicPass) > 0
    THEN [r EXCEPT !.Auth = [set |-> TRUE, user |-> c.BasicUser,
                             pass |-> c.BasicPass]]
    ELSE r

\* if c.BasicUser != "" && c.BasicPass != "" { req.SetBasicAuth(user, pass) }
addBasicAuth(c, r) ==
    IF Len(c.BasicUser) > 0 /\ Len(c.BasicPass) > 0
    THEN [r EXCEPT !.Auth = [set |-> TRUE, user |-> c.BasicUser,
                             pass |-> c.BasicPass]]
    ELSE r

\* Whether httpClient.Do can reach a server: a plain http.Transport refuses
\* a URL whose scheme is neither http nor https
CanExchange(c, r) ==
    \/ c.transport = "custom"
    \/ URLScheme(r.URL) \in {<<"h", "t", "t", "p">>, <<"h", "t", "t", "p", "s">>}

\* The ways an exchange fails: connection, context cancelled, timeout
DoFailures == {"connection refused", "context canceled", "Client.Timeout exceeded"}

\* Variants of CallResult with a slip in them: the fault is not looked at;
\* the decoder's error is dropped; an input that ended early counts as no error
CallResultIgnoreFault(val, fault, err) ==
    [val |-> val, err |-> IF err = "" THEN NoErr ELSE Err(err)]

CallResultDropErr(val, fault, err) ==
    [val |-> val, err |-> IF fault.present THEN FaultErr(err, fault) ELSE NoErr]

CallResultEOFNil(val, fault, err) ==
    [val |-> val,
     err |-> IF fault.present THEN FaultErr(err, fault)
             ELSE IF err \in {"", "IncompleteInput"} THEN NoErr ELSE Err(err)]

\* What Call returns after Unmarshal
CallResult(val, fault, err) ==
    [val |-> val,
     err |-> IF fault.present THEN FaultErr(err, fault)
             ELSE IF err = "" THEN NoErr ELSE Err(err)]

NoRet == [val |-> NilVal, err |-> NoErr]

(***************************************************************************)
(* The rtorrent facade: each operation's call and what it makes of the     *)
(* value Call returns.  A failed type assertion or index is a Go panic.    *)
(***************************************************************************)
HashA == <<"A", "1">>

ScalarOps == {"IP", "Name", "DownTotal", "DownRate", "UpTotal", "UpRate"}
VoidOps == {"Delete", "StartTorrent", "StopTorrent", "CloseTorrent",
            "OpenTorrent", "PauseTorrent", "ResumeTorrent"}
FlagOps == {"IsActive", "IsOpen", "State"}
FacadeOps == ScalarOps \cup VoidOps \cup FlagOps \cup {"GetTorrents"}
UrlAddOps == {"Add", "AddStopped"}
AddOps == UrlAddOps \cup {"AddTorrent", "AddTorrentStopped"}

\* The data add is handed: the URL's bytes, or the torrent file's bytes
AddData(o) == IF o.name \in UrlAddOps THEN Bytes(o.args.in) ELSE o.args.in

\* add: args := []interface{}{data}; args = append(args, v.String()) for each
\* extraArg; Call(ctx, cmd, "", args): the arguments of the Call are the
\* target and the slice
AddArgs(d, extraArgs) ==
    <<StrV(<<>>),
      ArrV(<<BytesV(d)>>
           \o [k \in 1..Len(extraArgs) |-> StrV(FieldValueString(extraArgs[k]))])>>

\* The arguments GetTorrents passes to d.multicall2
GetTorrentsArgs ==
    <<StrV(<<>>), StrV(ViewMain), StrV(Query(DName)), StrV(Query(DSizeInBytes)),
      StrV(Query(DHash)), StrV(Query(DLabel)), StrV(Query(DDirectory)),
      StrV(Query(DIsActive)), StrV(Query(DComplete)), StrV(Query(DRatio)),
      StrV(Query(DCreationTime)), StrV(Query(DFinishedTime)),
      StrV(Query(DStartedTime))>>

OpCmd(o) ==
    CASE o.name = "IP" -> CmdBindAddress
      [] o.name = "Name" -> CmdHostname
      [] o.name = "DownTotal" -> CmdDownTotal
      [] o.name = "DownRate" -> CmdDownRate
      [] o.name = "UpTotal" -> CmdUpTotal
      [] o.name = "UpRate" -> CmdUpRate
      [] o.name = "GetTorrents" -> CmdMulticall2
      [] o.name = "Delete" -> CmdErase
      [] o.name = "StartTorrent" -> CmdStart
      [] o.name = "StopTorrent" -> CmdStop
      [] o.name = "CloseTorrent" -> CmdClose
      [] o.name = "OpenTorrent" -> CmdOpen
      [] o.name = "PauseTorrent" -> CmdPause
      [] o.name = "ResumeTorrent" -> CmdResume
      [] o.name = "IsActive" -> CmdIsActive
      [] o.name = "IsOpen" -> CmdIsOpen
      [] o.name = "State" -> CmdState
      [] o.name = "AddStopped" -> CmdLoadNormal
      [] o.name = "Add" -> CmdLoadStart
      [] o.name = "AddTorrentStopped" -> CmdLoadRaw
      [] o.name = "AddTorrent" -> CmdLoadRawStart
      [] OTHER -> o.cmd

OpArgs(o) ==
    IF o.name \in ScalarOps THEN <<>>
    ELSE IF o.name = "GetTorrents" THEN GetTorrentsArgs
    ELSE IF o.name \in VoidOps \cup FlagOps THEN <<StrV(HashA)>>
    ELSE IF o.name \in AddOps THEN AddArgs(AddData(o), o.args.extra)
    ELSE o.args

\* The Call an operation issues
OpCall(o) == [name |-> OpCmd(o), args |-> OpArgs(o)]

FNone == [kind |-> "none", val |-> NilVal, err |-> NoErr]
FOk(v) == [kind |-> "ok", val |-> v, err |-> NoErr]
FErr(zero, e) == [kind |-> "error", val |-> zero, err |-> e]
FPanic == [kind |-> "panic", val |-> NilVal, err |-> NoErr]

TorrentsV(l) == [t |-> "torrents", l |-> l]

\* Column c of a row, counted from 0 as the source does
Col(row, c) == row.a[c + 1]

\* The type assertions and indices GetTorrents applies to one row
RowOk(row) ==
    /\ row.t = "array"
    /\ Len(row.a) >= 11
    /\ \A c \in {0, 2, 3, 4} : Col(row, c).t = "string"
    /\ \A c \in {1, 6, 7, 8, 9, 10} : Col(row, c).t = "int"

\* A variant of RowTorrent with a slip in it: name and hash columns swapped
RowTorrentSwapped(row) ==
    [Hash |-> Col(row, 0).s,
     Name |-> Col(row, 2).s,
     Path |-> Col(row, 4).s,
     Size |-> Col(row, 1).i,
     Label |-> Col(row, 3).s,
     Completed |-> Col(row, 6).i > 0,
     Ratio |-> [num |-> Col(row, 7).i, den |-> 1000],
     Created |-> Col(row, 8).i,
     Finished |-> Col(row, 9).i,
     Started |-> Col(row, 10).i]

\* The Torrent GetTorrents builds from one row
RowTorrent(row) ==
    [Hash |-> Col(row, 2).s,
     Name |-> Col(row, 0).s,
     Path |-> Col(row, 4).s,
     Size |-> Col(row, 1).i,
     Label |-> Col(row, 3).s,
     Completed |-> Col(row, 6).i > 0,
     Ratio |-> [num |-> Col(row, 7).i, den |-> 1000],
     Created |-> Col(row, 8).i,
     Finished |-> Col(row, 9).i,
     Started |-> Col(row, 10).i]

RECURSIVE Flatten(_)
Flatten(outers) ==
    IF Len(outers) = 0 THEN <<>> ELSE Head(outers).a \o Flatten(Tail(outers))

GetTorrentsResult(v) ==
    IF v.t # "array" THEN FPanic
    ELSE IF \E k \in 1..Len(v.a) : v.a[k].t # "array" THEN FPanic
    ELSE LET rows == Flatten(v.a) IN
         IF \E k \in 1..Len(rows) : ~RowOk(rows[k]) THEN FPanic
         ELSE FOk(TorrentsV([k \in 1..Len(rows) |-> RowTorrent(rows[k])]))

\* if xs, ok := result.([]interface{}); ok { result = xs[0] }
FirstOrSelf(v) ==
    IF v.t = "array"
    THEN (IF Len(v.a) = 0 THEN [panic |-> TRUE, val |-> NilVal]
          ELSE [panic |-> FALSE, val |-> v.a[1]])
    ELSE [panic |-> FALSE, val |-> v]

\* DownTotal, DownRate, UpTotal, UpRate
IntResult(v) ==
    LET r == FirstOrSelf(v) IN
    IF r.panic THEN FPanic
    ELSE IF r.val.t = "int" THEN FOk(IntV(r.val.i))
    ELSE FErr(IntV(0), Err("result isn't int"))

\* IP, Name
StringResult(v) ==
    LET r == FirstOrSelf(v) IN
    IF r.panic THEN FPanic
    ELSE IF r.val.t = "string" THEN FOk(StrV(r.val.s))
    ELSE FErr(StrV(<<>>), Err("result isn't string"))

\* results.([]interface{})[0].(int)
FirstInt(v) ==
    IF v.t # "array" \/ Len(v.a) = 0 \/ v.a[1].t # "int"
    THEN [panic |-> TRUE, i |-> 0]
    ELSE [panic |-> FALSE, i |-> v.a[1].i]

\* IsActive, IsOpen: the first element equals 1; State: the first element
FlagResult(o, v) ==
    LET r == FirstInt(v) IN
    IF r.panic THEN FPanic
    ELSE IF o.name = "State" THEN FOk(IntV(r.i))
    ELSE FOk(BoolV(r.i = 1))

\* The zero value an operation returns beside an error
ZeroOf(o) ==
    IF o.name \in {"IP", "Name"} THEN StrV(<<>>)
    ELSE IF o.name \in ScalarOps \cup {"State"} THEN IntV(0)
    ELSE IF o.name \in {"IsActive", "IsOpen"} THEN BoolV(FALSE)
    ELSE IF o.name = "GetTorrents" THEN TorrentsV(<<>>)
    ELSE NilVal

WrapMsg(o) == OpCmd(o) \o XmlrpcCallFailed

\* What the operation returns, given what its Call returned
FacadeResult(o, r) ==
    IF o.name = "Call"
    THEN (IF r.err = NoErr THEN FOk(r.val) ELSE FErr(r.val, r.err))
    ELSE IF r.err # NoErr THEN FErr(ZeroOf(o), Wrap(r.err, WrapMsg(o)))
    ELSE IF o.name \in {"IP", "Name"} THEN StringResult(r.val)
    ELSE IF o.name \in ScalarOps THEN IntResult(r.val)
    ELSE IF o.name \in FlagOps THEN FlagResult(o, r.val)
    ELSE IF o.name = "GetTorrents" THEN GetTorrentsResult(r.val)
    ELSE FOk(NilVal)

(***************************************************************************)
(* What the server may answer: documents of decoded shape, fault           *)
(* documents, documents cut short, documents that break the grammar.       *)
(***************************************************************************)
S42 == <<"4", "2">>
Sabc == <<"a", "b", "c">>
MethodNotFound == <<"M", "e", "t", "h", "o", "d", " ", "n", "o", "t", " ", "f", "o", "u", "n", "d">>

Row1 ==
    ArrV(<<StrV(<<"n", "1">>), IntV(11), StrV(<<"h", "1">>), StrV(<<"l", "1">>),
           StrV(<<"p", "1">>), IntV(1), IntV(0), IntV(1500), IntV(101),
           IntV(102), IntV(103)>>)
Row2 ==
    ArrV(<<StrV(<<"n", "2">>), IntV(22), StrV(<<"h", "2">>), StrV(<<>>),
           StrV(<<"p", "2">>), IntV(0), IntV(1), IntV(0), IntV(201),
           IntV(202), IntV(203)>>)
\* a row whose size arrives as decimal text
RowStrSize ==
    ArrV(<<StrV(<<"n", "3">>), StrV(S42), StrV(<<"h", "3">>), StrV(<<>>),
           StrV(<<"p", "3">>), IntV(0), IntV(1), IntV(0), IntV(301),
           IntV(302), IntV(303)>>)
\* a row with fewer columns than were requested
RowShort == ArrV(<<StrV(<<"n", "4">>), IntV(44), StrV(<<"h", "4">>)>>)

Rows == {Row1, Row2, RowStrSize, RowShort}
RowSeqs == UNION {[1..n -> Rows] : n \in 0..MaxRows}

SampleStruct ==
    StructV({<< <<"k", "1">>, IntV(1) >>, << <<"k", "2">>, StrV(Sabc) >>})

RespValues ==
    {IntV(0), IntV(1), IntV(42), StrV(S42), StrV(Sabc), StrV(<<"&", "<">>),
     BoolV(TRUE), ArrV(<<>>), ArrV(<<IntV(0)>>), ArrV(<<IntV(1)>>),
     ArrV(<<StrV(S42)>>), ArrV(<<StrV(Sabc)>>), SampleStruct}
    \cup {ArrV(<<ArrV(rows)>>) : rows \in RowSeqs}

Prefixes(doc) == {SubSeq(doc, 1, n) : n \in 0..(Len(doc) - 1)}

FaultCases == {<<500, MethodNotFound>>, <<-1, <<>> >>}
FaultDocs == {FaultDoc(f[1], f[2]) : f \in FaultCases}

\* Complete documents cut off before their end
TruncatedDocs ==
    Prefixes(ResponseDoc(SampleStruct))
    \cup Prefixes(ResponseDoc(ArrV(<<IntV(1)>>)))
    \cup Prefixes(FaultDoc(500, MethodNotFound))

\* Well-formed markup that is no response: no param, two params, a struct
\* with a repeated member name, a value of no known type, an entity that
\* does not exist
ZeroParamsDoc == Elem("methodResponse", Elem("params", <<>>))
TwoParamsDoc ==
    Elem("methodResponse",
         Elem("params", Elem("param", Elem("value", EncodeValue(IntV(1))))
                        \o Elem("param", Elem("value", EncodeValue(IntV(2))))))
\* a struct whose two members carry the same name
DupMemberDoc ==
    LET mem(i) == Elem("member", Elem("name", <<Text(<<"k">>)>>)
                                 \o Elem("value", EncodeValue(IntV(i))))
    IN Elem("methodResponse",
            Elem("params", Elem("param", Elem("value",
                 Elem("struct", mem(1) \o mem(2))))))

MalformedDocs ==
    {ZeroParamsDoc, TwoParamsDoc, DupMemberDoc,
     Elem("methodResponse",
          Elem("params", Elem("param", Elem("value", Elem("foo", <<>>))))),
     Elem("methodResponse",
          Elem("params", Elem("param", Elem("value",
               Elem("string", <<Text(<<"&", "x", ";">>)>>))))),
     Elem("html", <<>>)}

\* The size of the torrent the tests add, in bytes
BigSize == <<"5", "6", "6", "5", "4", "9", "7", "0", "8", "8">>

\* A d.multicall2 response of one row, Row1 with BigSize in its size column,
\* the number written inside the element tag
BigSizeDoc(tag) ==
    LET cell(k) == IF k = 2 THEN Elem(tag, <<Text(BigSize)>>)
                   ELSE EncodeValue(Row1.a[k])
        RECURSIVE cells(_)
        cells(k) == IF k > Len(Row1.a) THEN <<>>
                    ELSE Elem("value", cell(k)) \o cells(k + 1)
        arr(body) == Elem("array", Elem("data", Elem("value", body)))
    IN Elem("methodResponse",
            Elem("params", Elem("param", Elem("value",
                 arr(arr(Elem("array", Elem("data", cells(1)))))))))

BigSizeDocs == {BigSizeDoc("i4"), BigSizeDoc("i8")}

RespDocs ==
    {ResponseDoc(v) : v \in RespValues} \cup FaultDocs \cup TruncatedDocs
    \cup MalformedDocs \cup BigSizeDocs

(***************************************************************************)
(* The operations a caller may start.                                      *)
(***************************************************************************)
NoOp == [name |-> "none", cmd |-> <<>>, args |-> <<>>]
NoCall == [name |-> <<>>, args |-> <<>>]

DirectArgs == {<<IntV(1)>>, <<StrV(<<"&">>), BoolV(FALSE)>>, <<Unsupported>>}

Ops ==
    {[name |-> n, cmd |-> <<>>, args |-> <<>>] : n \in FacadeOps}
    \cup {[name |-> "Call", cmd |-> <<"m">>, args |-> a] : a \in DirectArgs}

(***************************************************************************)
(* Client.Call, step by step, under a facade operation.                    *)
(***************************************************************************)
\* What Call returns when Marshal fails
MarshalFailResult == [val |-> NilVal, err |-> Wrap(Err("marshal"), MsgMarshal)]

\* What Call returns when the request cannot be created
RequestFailResult == [val |-> NilVal, err |-> Wrap(Err("request"), MsgRequest)]

\* A variant of DoFailResult with a slip in it: the error is not returned
DoFailResultDropped(kind) == [val |-> NilVal, err |-> NoErr]

\* What Call returns when httpClient.Do returns an error
DoFailResult(kind) == [val |-> NilVal, err |-> Wrap(Err(kind), MsgPost)]

CodecIdle ==
    /\ cin = NilVal
    /\ cdoc = <<>>
    /\ cout = DecStart
    /\ cphase = "off"

\* GetTorrent / GetStatus before their first call
SeqStart ==
    [idx |-> 0, issued |-> <<>>, outcomes |-> <<>>, results |-> <<>>, acc |-> <<>>]

Procs == 1..NumProcs

\* The locals of one Call invocation before it starts
ProcIdle ==
    [pc |-> "idle", call |-> NoCall, buf |-> 0, req |-> NoReq, sent |-> <<>>,
     resp |-> <<>>, ret |-> NoRet]

ConcIdle ==
    /\ procs = [p \in Procs |-> ProcIdle]
    /\ bufs = [b \in Procs |-> <<>>]

Init ==
    /\ client \in Clients
    /\ fpc = "idle"
    /\ op = NoOp
    /\ call = NoCall
    /\ cpc = "none"
    /\ data = <<>>
    /\ req = NoReq
    /\ doErr = ""
    /\ respBody = <<>>
    /\ dec = DecStart
    /\ ret = NoRet
    /\ fres = FNone
    /\ steps = <<>>
    /\ CodecIdle
    /\ seq = SeqStart
    /\ ConcIdle

\* A caller starts an operation; the operation issues its Call
Invoke(o) ==
    /\ fpc \in {"idle", "done"}
    /\ fres.kind # "panic"
    /\ fpc' = "calling"
    /\ op' = o
    /\ call' = OpCall(o)
    /\ cpc' = "marshal"
    /\ data' = <<>>
    /\ req' = NoReq
    /\ doErr' = ""
    /\ respBody' = <<>>
    /\ dec' = DecStart
    /\ ret' = NoRet
    /\ fres' = FNone
    /\ steps' = <<>>
    /\ UNCHANGED <<client, cin, cdoc, cout, cphase, seq, procs, bufs>>

\* data := bytes.NewBuffer(nil); Marshal(data, name, args...)
CallMarshal ==
    /\ cpc = "marshal"
    /\ LET m == Marshal(call.name, call.args) IN
       IF m.ok
       THEN /\ data' = m.doc
            /\ steps' = Append(steps, "encode")
            /\ cpc' = "newrequest"
            /\ ret' = ret
       ELSE /\ data' = data
            /\ steps' = steps
            /\ cpc' = "returned"
            /\ ret' = MarshalFailResult
    /\ UNCHANGED <<client, fpc, op, call, req, doErr, respBody, dec, fres,
                   cin, cdoc, cout, cphase, seq, procs, bufs>>

\* http.NewRequestWithContext(ctx, c.addr, "text/xml", data); c.addBasicAuth(req)
CallNewRequest ==
    /\ cpc = "newrequest"
    /\ LET r == CallRequest(client, data) IN
       IF r.ok
       THEN /\ req' = addBasicAuth(client, r.req)
            /\ cpc' = "do"
            /\ ret' = ret
       ELSE /\ req' = req
            /\ cpc' = "returned"
            /\ ret' = RequestFailResult
    /\ UNCHANGED <<client, fpc, op, call, data, doErr, respBody, dec, fres, steps,
                   cin, cdoc, cout, cphase, seq, procs, bufs>>

\* c.httpClient.Do(req) returns an error: the transport refuses the URL, the
\* connection fails, the context is cancelled or the timeout strikes
CallDoFail ==
    /\ cpc = "do"
    /\ \E kind \in IF CanExchange(client, req) THEN DoFailures
                   ELSE {"unsupported protocol scheme"} :
          /\ doErr' = kind
          /\ ret' = DoFailResult(kind)
    /\ steps' = Append(steps, "do")
    /\ cpc' = "returned"
    /\ UNCHANGED <<client, fpc, op, call, data, req, respBody, dec, fres,
                   cin, cdoc, cout, cphase, seq, procs, bufs>>

\* c.httpClient.Do(req) returns a response, whose body is some document
CallDoRespond ==
    /\ cpc = "do"
    /\ CanExchange(client, req)
    /\ \E doc \in RespDocs : respBody' = doc
    /\ steps' = Append(steps, "do")
    /\ cpc' = "unmarshal"
    /\ UNCHANGED <<client, fpc, op, call, data, req, doErr, dec, ret, fres,
                   cin, cdoc, cout, cphase, seq, procs, bufs>>

\* Unmarshal(resp.Body) starts
CallUnmarshal ==
    /\ cpc = "unmarshal"
    /\ dec' = DecStart
    /\ steps' = Append(steps, "decode")
    /\ cpc' = "decoding"
    /\ UNCHANGED <<client, fpc, op, call, data, req, doErr, respBody, ret, fres,
                   cin, cdoc, cout, cphase, seq, procs, bufs>>

\* One transition of the decoder
CallDecodeStep ==
    /\ cpc = "decoding"
    /\ ~DecTerminal(dec)
    /\ dec' = DecStep(respBody, dec)
    /\ UNCHANGED <<client, fpc, op, call, cpc, data, req, doErr, respBody, ret,
                   fres, steps, cin, cdoc, cout, cphase, seq, procs, bufs>>

\* if fault != nil { err = errors.Errorf(...) }; return val, err
CallReturn ==
    /\ cpc = "decoding"
    /\ DecTerminal(dec)
    /\ ret' = CallResult(dec.val, dec.fault, dec.err)
    /\ cpc' = "returned"
    /\ UNCHANGED <<client, fpc, op, call, data, req, doErr, respBody, dec, fres,
                   steps, cin, cdoc, cout, cphase, seq, procs, bufs>>

\* The operation returns what it makes of Call's result
FacadeReturn ==
    /\ fpc = "calling"
    /\ cpc = "returned"
    /\ fres' = FacadeResult(op, ret)
    /\ fpc' = "done"
    /\ UNCHANGED <<client, op, call, cpc, data, req, doErr, respBody, dec, ret,
                   steps, cin, cdoc, cout, cphase, seq, procs, bufs>>

Next ==
    \/ \E o \in Ops : Invoke(o)
    \/ CallMarshal
    \/ CallNewRequest
    \/ CallDoFail
    \/ CallDoRespond
    \/ CallUnmarshal
    \/ CallDecodeStep
    \/ CallReturn
    \/ FacadeReturn

Spec == Init /\ [][Next]_vars

(***************************************************************************)
(* Add, AddStopped, AddTorrent, AddTorrentStopped: the caller's URL or     *)
(* torrent file and its extra arguments.                                   *)
(***************************************************************************)
AddUrls == {<<"h", "t", "t", "p", ":", "/", "/", "a">>}
AddFiles == {<<100, 56, 58>>, <<>>}
LabelL == [Field |-> DLabel, Value |-> <<"L">>]
PathP == [Field |-> DDirectory, Value |-> <<"/", "p">>]
ExtraArgLists == {<<>>, <<LabelL>>, <<LabelL, PathP>>, <<PathP, LabelL>>}

AddCalls ==
    {[name |-> n, cmd |-> <<>>, args |-> [in |-> u, extra |-> e]] :
        n \in UrlAddOps, u \in AddUrls, e \in ExtraArgLists}
    \cup {[name |-> n, cmd |-> <<>>, args |-> [in |-> f, extra |-> e]] :
        n \in AddOps \ UrlAddOps, f \in AddFiles, e \in ExtraArgLists}

NextAdd ==
    \/ \E o \in AddCalls : Invoke(o)
    \/ CallMarshal
    \/ CallNewRequest
    \/ CallDoFail
    \/ CallDoRespond
    \/ CallUnmarshal
    \/ CallDecodeStep
    \/ CallReturn
    \/ FacadeReturn

SpecAdd == Init /\ [][NextAdd]_vars

(***************************************************************************)
(* The codec alone: a value is encoded as the one argument of a call "m"   *)
(* and the document is decoded again.                                      *)
(***************************************************************************)
CodecChars == {"a", "&", "<", ">", "'", "\"", ";"}
CodecInts == {-7, 0, 42}
CodecStrings == UNION {[1..n -> CodecChars] : n \in 0..MaxStrLen}
CodecLeaves ==
    {IntV(i) : i \in CodecInts} \cup {BoolV(b) : b \in BOOLEAN}
    \cup {StrV(x) : x \in CodecStrings}
    \cup {StrV(<<"&", "l", "t", ";">>), StrV(<<"&", "a", "m", "p", ";", "&">>)}
SmallLeaves == {IntV(-7), BoolV(TRUE), StrV(<<"<", "&">>), StrV(<<>>)}
CodecKeys == {<<"k">>, <<"a", "&">>}
CodecArrays == {ArrV(a) : a \in UNION {[1..n -> SmallLeaves] : n \in 0..2}}
CodecStructs ==
    {StructV({<<k, f[k]>> : k \in ks}) :
        f \in [CodecKeys -> SmallLeaves], ks \in SUBSET CodecKeys}
CodecNested ==
    {ArrV(<<x>>) : x \in CodecArrays \cup CodecStructs}
    \cup {ArrV(<<IntV(0), x>>) : x \in CodecStructs}
    \cup {StructV({<< <<"k">>, x >>}) : x \in CodecArrays \cup CodecStructs}
CodecValues == CodecLeaves \cup CodecArrays \cup CodecStructs \cup CodecNested

CallIdle ==
    /\ client = NewClient([Addr |-> AddrURL, BasicUser |-> <<>>, BasicPass |-> <<>>])
    /\ fpc = "idle"
    /\ op = NoOp
    /\ call = NoCall
    /\ cpc = "none"
    /\ data = <<>>
    /\ req = NoReq
    /\ doErr = ""
    /\ respBody = <<>>
    /\ dec = DecStart
    /\ ret = NoRet
    /\ fres = FNone
    /\ steps = <<>>

InitCodec ==
    /\ CallIdle
    /\ cin \in CodecValues
    /\ cdoc = <<>>
    /\ cout = DecStart
    /\ cphase = "init"
    /\ seq = SeqStart
    /\ ConcIdle

\* encode("m", [v])
CodecEncode ==
    /\ cphase = "init"
    /\ cdoc' = Marshal(<<"m">>, <<cin>>).doc
    /\ cphase' = "encoded"
    /\ UNCHANGED <<cin, cout, seq, procs, bufs>>
    /\ UNCHANGED callVars

\* decode of the encoded document
CodecDecode ==
    /\ cphase = "encoded"
    /\ cout' = Unmarshal(cdoc)
    /\ cphase' = "decoded"
    /\ UNCHANGED <<cin, cdoc, seq, procs, bufs>>
    /\ UNCHANGED callVars

NextCodec == CodecEncode \/ CodecDecode

SpecCodec == InitCodec /\ [][NextCodec]_vars

(***************************************************************************)
(* Calls made at the same time on one Client.  Each invocation runs        *)
(* Client.Call with its own locals; the Client and the server are shared.  *)
(* The server answers a call by sending back the call's one argument.      *)
(***************************************************************************)
\* A variant of NewBuffer with a slip in it: one buffer serves every Call
NewBufferShared(p) == 1

\* data := bytes.NewBuffer(nil): a buffer of the invocation's own
NewBuffer(p) == p

ConcCalls ==
    {[name |-> <<"a">>, args |-> <<IntV(1)>>],
     [name |-> <<"b">>, args |-> <<StrV(<<"x", "&">>)>>]}

ConcClients ==
    {NewClientWithHTTPClient(a, "custom") : a \in Addrs}
    \cup {NewClient([Addr |-> AddrToken, BasicUser |-> UserU, BasicPass |-> PassP])}

\* The server: the response carries the value of the call's argument
EchoResponse(body) ==
    CHOOSE r \in {IF d.state = "Done" /\ d.root = "methodCall"
                  THEN ResponseDoc(d.val) ELSE FaultDoc(-1, <<>>) :
                  d \in {Unmarshal(body)}} : TRUE

CallRest ==
    /\ fpc = "idle"
    /\ op = NoOp
    /\ call = NoCall
    /\ cpc = "none"
    /\ data = <<>>
    /\ req = NoReq
    /\ doErr = ""
    /\ respBody = <<>>
    /\ dec = DecStart
    /\ ret = NoRet
    /\ fres = FNone
    /\ steps = <<>>

InitConc ==
    /\ client \in ConcClients
    /\ CallRest
    /\ CodecIdle
    /\ seq = SeqStart
    /\ ConcIdle

\* A goroutine enters Call(ctx, name, args...)
ConcInvoke(p, c) ==
    /\ procs[p].pc = "idle"
    /\ procs' = [procs EXCEPT ![p].pc = "marshal", ![p].call = c]
    /\ UNCHANGED <<bufs, callVars, codecVars, seq>>

\* data := bytes.NewBuffer(nil); Marshal(data, name, args...) writes into it
ConcMarshal(p) ==
    /\ procs[p].pc = "marshal"
    /\ LET b == NewBuffer(p)
           m == Marshal(procs[p].call.name, procs[p].call.args)
       IN /\ bufs' = [bufs EXCEPT ![b] = @ \o m.doc]
          /\ procs' = [procs EXCEPT ![p].pc = "newrequest", ![p].buf = b]
    /\ UNCHANGED <<callVars, codecVars, seq>>

\* http.NewRequestWithContext(ctx, c.addr, "text/xml", data); c.addBasicAuth(req)
ConcNewRequest(p) ==
    /\ procs[p].pc = "newrequest"
    /\ LET r == CallRequest(client, procs[p].buf) IN
       IF r.ok
       THEN procs' = [procs EXCEPT ![p].pc = "do",
                                   ![p].req = addBasicAuth(client, r.req)]
       ELSE procs' = [procs EXCEPT ![p].pc = "returned",
                                   ![p].ret = RequestFailResult]
    /\ UNCHANGED <<bufs, callVars, codecVars, seq>>

\* c.httpClient.Do(req) fails before the body is sent
ConcDoFail(p) ==
    /\ procs[p].pc = "do"
    /\ \E kind \in IF CanExchange(client, procs[p].req) THEN DoFailures
                   ELSE {"unsupported protocol scheme"} :
          procs' = [procs EXCEPT ![p].pc = "returned", ![p].ret = DoFailResult(kind)]
    /\ UNCHANGED <<bufs, callVars, codecVars, seq>>

\* c.httpClient.Do(req): the transport reads the body out of the request's
\* buffer and sends it; the server's response arrives
ConcDoRespond(p) ==
    /\ procs[p].pc = "do"
    /\ CanExchange(client, procs[p].req)
    /\ LET b == procs[p].req.Body
           body == bufs[b]
       IN /\ bufs' = [bufs EXCEPT ![b] = <<>>]
          /\ procs' = [procs EXCEPT ![p].pc = "unmarshal", ![p].sent = body,
                                    ![p].resp = EchoResponse(body)]
    /\ UNCHANGED <<callVars, codecVars, seq>>

\* Unmarshal(resp.Body); return val, err
ConcReturn(p) ==
    /\ procs[p].pc = "unmarshal"
    /\ \E d \in {Unmarshal(procs[p].resp)} :
          procs' = [procs EXCEPT ![p].pc = "returned",
                                 ![p].ret = CallResult(d.val, d.fault, d.err)]
    /\ UNCHANGED <<bufs, callVars, codecVars, seq>>

NextConc ==
    \E p \in Procs :
        \/ \E c \in ConcCalls : ConcInvoke(p, c)
        \/ ConcMarshal(p)
        \/ ConcNewRequest(p)
        \/ ConcDoFail(p)
        \/ ConcDoRespond(p)
        \/ ConcReturn(p)

SpecConc == InitConc /\ [][NextConc]_vars

(***************************************************************************)
(* GetTorrent and GetStatus: one Call after the other, each result read    *)
(* into the Torrent or Status before the next Call is issued.              *)
(***************************************************************************)
DCompletedBytes ==
    <<"d", ".", "c", "o", "m", "p", "l", "e", "t", "e", "d", "_", "b",
      "y", "t", "e", "s">>
DDownRate == <<"d", ".", "d", "o", "w", "n", ".", "r", "a", "t", "e">>
DUpRate == <<"d", ".", "u", "p", ".", "r", "a", "t", "e">>

SeqOps == {"GetTorrent", "GetStatus"}

\* The commands GetTorrent calls, in the order of its statements
GetTorrentCmds ==
    <<DName, DSizeInBytes, DLabel, DDirectory, DComplete, DRatio,
      DCreationTime, DFinishedTime, DStartedTime>>

\* The commands GetStatus calls, in the order of its statements
GetStatusCmds ==
    <<DComplete, DCompletedBytes, DDownRate, DUpRate, DRatio, DSizeInBytes>>

SeqCmds(o) == IF o.name = "GetTorrent" THEN GetTorrentCmds ELSE GetStatusCmds

\* The k-th Call of the operation: the command with the hash
SeqCall(o, k) == [name |-> SeqCmds(o)[k], args |-> <<StrV(HashA)>>]

\* The type the k-th result's first element is asserted to have
SeqType(o, k) ==
    IF o.name = "GetTorrent" /\ k \in {1, 3, 4} THEN "string" ELSE "int"

ZeroTime == [zero |-> TRUE, unix |-> 0]
TimeUnix(i) == [zero |-> FALSE, unix |-> i]

\* var t Torrent; t.Hash = hash
ZeroTorrent ==
    [Hash |-> HashA, Name |-> <<>>, Path |-> <<>>, Size |-> 0, Label |-> <<>>,
     Completed |-> FALSE, Ratio |-> [num |-> 0, den |-> 1000],
     Created |-> ZeroTime, Started |-> ZeroTime, Finished |-> ZeroTime]

\* var s Status
ZeroStatus ==
    [Completed |-> FALSE, CompletedBytes |-> 0, DownRate |-> 0, UpRate |-> 0,
     Ratio |-> [num |-> 0, den |-> 1000], Size |-> 0]

SeqZero(o) == IF o.name = "GetTorrent" THEN ZeroTorrent ELSE ZeroStatus

\* results.([]interface{})[0].(T)
FirstAs(v, t) ==
    IF v.t # "array" \/ Len(v.a) = 0 \/ v.a[1].t # t
    THEN [panic |-> TRUE, val |-> NilVal]
    ELSE [panic |-> FALSE, val |-> v.a[1]]

\* The assignment that follows the k-th Call of GetTorrent
TorrentField(t, k, v) ==
    CASE k = 1 -> [t EXCEPT !.Name = v.s]
      [] k = 2 -> [t EXCEPT !.Size = v.i]
      [] k = 3 -> [t EXCEPT !.Label = v.s]
      [] k = 4 -> [t EXCEPT !.Path = v.s]
      [] k = 5 -> [t EXCEPT !.Completed = v.i > 0]
      [] k = 6 -> [t EXCEPT !.Ratio = [num |-> v.i, den |-> 1000]]
      [] k = 7 -> [t EXCEPT !.Created = TimeUnix(v.i)]
      [] k = 8 -> [t EXCEPT !.Finished = TimeUnix(v.i)]
      [] OTHER -> [t EXCEPT !.Created = TimeUnix(v.i)]

\* The assignment that follows the k-th Call of GetStatus
StatusField(st, k, v) ==
    CASE k = 1 -> [st EXCEPT !.Completed = v.i > 0]
      [] k = 2 -> [st EXCEPT !.CompletedBytes = v.i]
      [] k = 3 -> [st EXCEPT !.DownRate = v.i]
      [] k = 4 -> [st EXCEPT !.UpRate = v.i]
      [] k = 5 -> [st EXCEPT !.Ratio = [num |-> v.i, den |-> 1000]]
      [] OTHER -> [st EXCEPT !.Size = v.i]

SeqField(o, acc, k, v) ==
    IF o.name = "GetTorrent" THEN TorrentField(acc, k, v) ELSE StatusField(acc, k, v)

\* A variant of CallFailed with a slip in it: the error is not looked at
CallFailedNever(r) == FALSE

\* if err != nil
CallFailed(r) == r.err # NoErr

\* errors.Wrap(err, "<command> XMLRPC call failed")
SeqWrap(o, k, e) == Wrap(e, SeqCmds(o)[k] \o XmlrpcCallFailed)

SeqValue(acc) == [t |-> "record", r |-> acc]

\* What the server may answer to one of these calls
SeqDocs ==
    {ResponseDoc(ArrV(<<StrV(Sabc)>>)), ResponseDoc(ArrV(<<IntV(0)>>)),
     ResponseDoc(ArrV(<<IntV(1)>>)), ResponseDoc(IntV(1)), ResponseDoc(ArrV(<<>>)),
     FaultDoc(500, MethodNotFound), SubSeq(ResponseDoc(ArrV(<<IntV(1)>>)), 1, 6)}

SeqClients ==
    {NewClientWithHTTPClient(AddrToken, "custom"),
     NewClientWithHTTPClient(AddrURL, "custom"),
     NewClient([Addr |-> AddrToken, BasicUser |-> <<>>, BasicPass |-> <<>>])}

InitSeq ==
    /\ client \in SeqClients
    /\ CallRest
    /\ CodecIdle
    /\ seq = SeqStart
    /\ ConcIdle

\* A caller starts GetTorrent or GetStatus; the operation issues its first Call
SeqInvoke(o) ==
    /\ fpc \in {"idle", "done"}
    /\ fres.kind # "panic"
    /\ fpc' = "calling"
    /\ op' = o
    /\ seq' = [idx |-> 1, issued |-> <<SeqCall(o, 1)>>, outcomes |-> <<>>,
               results |-> <<>>, acc |-> SeqZero(o)]
    /\ call' = SeqCall(o, 1)
    /\ cpc' = "marshal"
    /\ data' = <<>>
    /\ req' = NoReq
    /\ doErr' = ""
    /\ respBody' = <<>>
    /\ dec' = DecStart
    /\ ret' = NoRet
    /\ fres' = FNone
    /\ steps' = <<>>
    /\ UNCHANGED <<client, cin, cdoc, cout, cphase, procs, bufs>>

\* c.httpClient.Do(req) returns a response to one of these calls
SeqDoRespond ==
    /\ cpc = "do"
    /\ CanExchange(client, req)
    /\ \E doc \in SeqDocs : respBody' = doc
    /\ steps' = Append(steps, "do")
    /\ cpc' = "unmarshal"
    /\ UNCHANGED <<client, fpc, op, call, data, req, doErr, dec, ret, fres,
                   cin, cdoc, cout, cphase, seq, procs, bufs>>

\* The Call succeeded and its result has the asserted type: the field is
\* assigned and the next Call is issued
SeqNextCall ==
    /\ fpc = "calling"
    /\ cpc = "returned"
    /\ op.name \in SeqOps
    /\ ~CallFailed(ret)
    /\ ~FirstAs(ret.val, SeqType(op, seq.idx)).panic
    /\ seq.idx < Len(SeqCmds(op))
    /\ seq' = [idx |-> seq.idx + 1,
               issued |-> Append(seq.issued, SeqCall(op, seq.idx + 1)),
               outcomes |-> Append(seq.outcomes, ret.err),
               results |-> Append(seq.results, ret.val),
               acc |-> SeqField(op, seq.acc, seq.idx,
                                FirstAs(ret.val, SeqType(op, seq.idx)).val)]
    /\ call' = SeqCall(op, seq.idx + 1)
    /\ cpc' = "marshal"
    /\ data' = <<>>
    /\ req' = NoReq
    /\ doErr' = ""
    /\ respBody' = <<>>
    /\ dec' = DecStart
    /\ ret' = NoRet
    /\ steps' = <<>>
    /\ UNCHANGED <<client, fpc, op, fres, cin, cdoc, cout, cphase, procs, bufs>>

\* The operation ends: with the wrapped error of the Call that failed, by a
\* failed type assertion, or with the record after the last Call
SeqReturn ==
    /\ fpc = "calling"
    /\ cpc = "returned"
    /\ op.name \in SeqOps
    /\ LET x == FirstAs(ret.val, SeqType(op, seq.idx)) IN
       IF CallFailed(ret)
       THEN /\ fres' = FErr(SeqValue(seq.acc), SeqWrap(op, seq.idx, ret.err))
            /\ seq' = [seq EXCEPT !.outcomes = Append(@, ret.err),
                                  !.results = Append(@, ret.val)]
       ELSE IF x.panic
       THEN /\ fres' = FPanic
            /\ seq' = [seq EXCEPT !.outcomes = Append(@, ret.err),
                                  !.results = Append(@, ret.val)]
       ELSE /\ seq.idx = Len(SeqCmds(op))
            /\ fres' = FOk(SeqValue(SeqField(op, seq.acc, seq.idx, x.val)))
            /\ seq' = [seq EXCEPT !.outcomes = Append(@, ret.err),
                                  !.results = Append(@, ret.val),
                                  !.acc = SeqField(op, seq.acc, seq.idx, x.val)]
    /\ fpc' = "done"
    /\ UNCHANGED <<client, op, call, cpc, data, req, doErr, respBody, dec, ret,
                   steps, cin, cdoc, cout, cphase, procs, bufs>>

NextSeq ==
    \/ \E n \in SeqOps : SeqInvoke([name |-> n, cmd |-> <<>>, args |-> <<>>])
    \/ CallMarshal
    \/ CallNewRequest
    \/ CallDoFail
    \/ SeqDoRespond
    \/ CallUnmarshal
    \/ CallDecodeStep
    \/ CallReturn
    \/ SeqNextCall
    \/ SeqReturn

SpecSeq == InitSeq /\ [][NextSeq]_vars

(***************************************************************************)
(* The claims.                                                             *)
(***************************************************************************)
Returned == cpc = "returned"
Decoded == Returned /\ steps = <<"encode", "do", "decode">>

\* C1: in every Call whose arguments encode, the steps are encode, then
\* exactly one HTTP exchange, then at most one decode, and never a second
\* exchange.
C1_EncodeOneExchangeDecode ==
    (Returned /\ Len(steps) > 0 /\ steps[1] = "encode")
        => steps \in {<<"encode", "do">>, <<"encode", "do", "decode">>}

\* C2: when the response is a fault document, Call returns a non-nil error
\* carrying the fault's code and message, and the facade operation built on
\* it returns that error too; a fault is never a success.
C2_FaultIsError ==
    \A f \in FaultCases :
        (Returned /\ respBody = FaultDoc(f[1], f[2])) =>
            /\ ret.err # NoErr
            /\ ret.err.kind = "fault"
            /\ ret.err.code = f[1]
            /\ ret.err.text = f[2]
            /\ fpc = "done" =>
                  /\ fres.kind = "error"
                  /\ fres.err.kind = "fault"
                  /\ fres.err.code = f[1]
                  /\ fres.err.text = f[2]

C2_Witness ==
    /\ fpc = "done"
    /\ op.name = "GetTorrents"
    /\ respBody = FaultDoc(500, MethodNotFound)
    /\ fres.err.code = 500
    /\ fres.err.text = MethodNotFound

C4_RequestIsPostToAddr ==
    req.present =>
        /\ req.Method = MethodPost
        /\ req.URL = client.addr
        /\ req.ContentType = TextXml
        /\ req.Body = data

\* The column of a d.multicall2 row that answers field f: the position of
\* f's query among the fields GetTorrents requests
ColumnOf(f) ==
    (CHOOSE k \in 1..Len(GetTorrentsArgs) : GetTorrentsArgs[k] = StrV(Query(f))) - 3

FieldAt(row, f) == row.a[ColumnOf(f) + 1]

\* A row that carries every requested field with a value of its type
CarriesFields(row) ==
    /\ row.t = "array"
    /\ Len(row.a) = Len(GetTorrentsArgs) - 2
    /\ \A f \in {DName, DHash, DLabel, DDirectory} : FieldAt(row, f).t = "string"
    /\ \A f \in {DSizeInBytes, DIsActive, DComplete, DRatio, DCreationTime,
                 DFinishedTime, DStartedTime} : FieldAt(row, f).t = "int"

\* C5: for a d.multicall2 response Array[Array[row_1 .. row_n]] whose rows
\* carry the requested fields, GetTorrents returns exactly n Torrents in row
\* order, each field taken from the column of the field requested for it
\* (d.name 0, d.size_bytes 1, d.hash 2, d.custom1 3, d.directory 4,
\* d.complete 6, d.ratio 7, d.creation_date 8, d.timestamp.finished 9,
\* d.timestamp.started 10); for n = 0 the list is empty and the error nil.
C5_GetTorrentsByColumn ==
    (/\ fpc = "done"
     /\ op.name = "GetTorrents"
     /\ ret.err = NoErr
     /\ ret.val.t = "array"
     /\ Len(ret.val.a) = 1
     /\ ret.val.a[1].t = "array"
     /\ \A k \in 1..Len(ret.val.a[1].a) : CarriesFields(ret.val.a[1].a[k]))
    => LET rows == ret.val.a[1].a IN
       /\ fres.kind = "ok"
       /\ fres.err = NoErr
       /\ Len(fres.val.l) = Len(rows)
       /\ <<ColumnOf(DName), ColumnOf(DSizeInBytes), ColumnOf(DHash),
            ColumnOf(DLabel), ColumnOf(DDirectory), ColumnOf(DComplete),
            ColumnOf(DRatio), ColumnOf(DCreationTime), ColumnOf(DFinishedTime),
            ColumnOf(DStartedTime)>> = <<0, 1, 2, 3, 4, 6, 7, 8, 9, 10>>
       /\ \A k \in 1..Len(rows) :
            LET tor == fres.val.l[k]
                row == rows[k]
            IN /\ tor.Name = FieldAt(row, DName).s
               /\ tor.Size = FieldAt(row, DSizeInBytes).i
               /\ tor.Hash = FieldAt(row, DHash).s
               /\ tor.Label = FieldAt(row, DLabel).s
               /\ tor.Path = FieldAt(row, DDirectory).s
               /\ tor.Completed = (FieldAt(row, DComplete).i > 0)
               /\ tor.Ratio = [num |-> FieldAt(row, DRatio).i, den |-> 1000]
               /\ tor.Created = FieldAt(row, DCreationTime).i
               /\ tor.Finished = FieldAt(row, DFinishedTime).i
               /\ tor.Started = FieldAt(row, DStartedTime).i

C5_Witness ==
    /\ fpc = "done"
    /\ op.name = "GetTorrents"
    /\ ret.val = ArrV(<<ArrV(<<Row2, Row1>>)>>)
    /\ fres.kind = "ok"
    /\ Len(fres.val.l) = 2
    /\ fres.val.l[1].Hash = <<"h", "2">>

\* A decoded value whose type tag is not the one the operation expects
TypeMismatch(o, v) ==
    IF o.name \in FlagOps
    THEN v.t # "array" \/ (Len(v.a) > 0 /\ v.a[1].t # "int")
    ELSE IF o.name = "GetTorrents"
    THEN \/ v.t # "array"
         \/ \E k \in 1..Len(v.a) : v.a[k].t # "array"
         \/ \E k \in 1..Len(v.a) : \E j \in 1..Len(v.a[k].a) :
               LET row == v.a[k].a[j] IN
               \/ row.t # "array"
               \/ /\ Len(row.a) = Len(GetTorrentsArgs) - 2
                  /\ ~CarriesFields(row)
    ELSE FALSE

\* C6: when a decoded response holds a value of another type than the
\* operation expects, the operation returns a type-mismatch error; it never
\* aborts and never returns a default value with a nil error.
C6_MismatchIsError ==
    (fpc = "done" /\ Decoded /\ ret.err = NoErr /\ TypeMismatch(op, ret.val))
        => fres.kind = "error"

\* C7: an integer that arrives as a String of base-10 digits is returned as
\* that integer by the integer-returning operations; a String that is no
\* base-10 integer makes them fail with an error.
C7_LenientInt ==
    (/\ fpc = "done"
     /\ Decoded
     /\ op.name \in {"DownTotal", "DownRate", "UpTotal", "UpRate"}
     /\ ret.err = NoErr
     /\ ret.val.t = "string")
    => IF IsDecimal(ret.val.s)
       THEN fres = FOk(IntV(Atoi(ret.val.s)))
       ELSE fres.kind = "error"

DecEdges ==
    {<<"Start", "InEnvelope">>, <<"InEnvelope", "InParams">>,
     <<"InEnvelope", "InFault">>, <<"InParams", "InValue">>,
     <<"InFault", "InValue">>, <<"InValue", "Done">>}
    \cup {<<st, "Error">> : st \in {"Start", "InEnvelope", "InParams", "InFault",
                                    "InValue"}}

\* C8: a decode run follows Start -> InEnvelope -> (InParams | InFault) ->
\* InValue -> Done; no transition leaves Done or Error (the decoder's state
\* changes again only when a new Call starts a new run); every run ends in
\* one of the two, since each transition moves forward along these edges and
\* a run short of them can always move; a run that ends in Error yields no
\* value, and Call then returns a nil value with a non-nil error.
C8_DecoderRun ==
    /\ [][dec' # dec =>
            IF cpc' = "marshal" THEN dec' = DecStart
            ELSE <<dec.state, dec'.state>> \in DecEdges]_vars
    /\ []((cpc = "decoding" /\ ~DecTerminal(dec)) =>
            <<dec.state, DecStep(respBody, dec).state>> \in DecEdges)
    /\ [](dec.state = "Error" =>
            dec.val = NilVal /\ ~dec.fault.present /\ dec.err # "")
    /\ []((Returned /\ dec.state = "Error") =>
            ret.val = NilVal /\ ret.err # NoErr /\ ret.err.kind = dec.err)
    /\ [](Decoded => DecTerminal(dec))

C8_Witness ==
    /\ Decoded
    /\ dec.state = "Error"
    /\ dec.err = "ProtocolError"
    /\ ret.err.kind = "ProtocolError"

\* C9: encoding then decoding is the identity: for every value v of ints,
\* booleans, strings (with & < > ' " among their characters), arrays and
\* structs, decoding the document that encodes the call ("m", [v]) yields
\* Success(v), array order and struct membership kept.
C9_RoundTrip ==
    cphase = "decoded" =>
        /\ cout.state = "Done"
        /\ cout.err = ""
        /\ ~cout.fault.present
        /\ cout.val = cin

C9_Witness ==
    /\ cphase = "decoded"
    /\ cin = ArrV(<<StructV({<< <<"a", "&">>, StrV(<<"<", "&">>) >>})>>)
    /\ cout.val = cin

\* C10: a response document that ends before it is complete makes the
\* decode fail with IncompleteInput; Call returns no value, never a partly
\* filled Struct as a success.
C10_TruncatedIsIncomplete ==
    (Decoded /\ respBody \in TruncatedDocs) =>
        /\ dec.state = "Error"
        /\ ret.err.kind = "IncompleteInput"
        /\ ret.val = NilVal
        /\ fpc = "done" => fres.kind = "error"

\* the stream closes inside the <struct>, after its first member
C10_Witness ==
    /\ Decoded
    /\ respBody = SubSeq(ResponseDoc(SampleStruct), 1, 15)
    /\ respBody[5] = Open("struct")
    /\ Close("struct") \notin {respBody[k] : k \in 1..Len(respBody)}
    /\ ret.err.kind = "IncompleteInput"

\* The number of params a document opens
ParamCount(doc) == Cardinality({k \in 1..Len(doc) : doc[k] = Open("param")})

\* C11: a successful decode wraps exactly one top-level value: a response
\* with no param or with more than one, and a struct with a repeated member
\* name, end in a ProtocolError and yield no value.
C11_OneTopLevelValue ==
    /\ (Decoded /\ respBody \in {ZeroParamsDoc, TwoParamsDoc, DupMemberDoc}) =>
            /\ dec.state = "Error"
            /\ ret.val = NilVal
            /\ ret.err # NoErr
            /\ ret.err.kind = "ProtocolError"
    /\ (Decoded /\ dec.state = "Done" /\ dec.branch = "params") =>
            ParamCount(respBody) = 1

C11_Witness ==
    /\ Decoded
    /\ respBody = TwoParamsDoc
    /\ ret.err.kind = "ProtocolError"
    /\ fpc = "done"
    /\ op.name = "IP"
    /\ fres.kind = "error"

\* C12: Calls running at the same time on one Client do not interfere: no
\* step of Call changes the Client, the body each Call sends is the encoding
\* of its own method name and arguments, and each Call that got a response
\* returns the value decoded from the response to its own request.
C12_NoInterference ==
    /\ [][client' = client]_vars
    /\ [](\A p \in Procs :
            procs[p].pc \in {"unmarshal", "returned"} /\ procs[p].resp # <<>> =>
                procs[p].sent = Marshal(procs[p].call.name, procs[p].call.args).doc)
    /\ [](\A p \in Procs :
            procs[p].pc = "returned" /\ procs[p].resp # <<>> =>
                /\ procs[p].ret.err = NoErr
                /\ procs[p].ret.val = procs[p].call.args[1])

C12_Witness ==
    /\ \A p \in Procs : procs[p].pc = "returned" /\ procs[p].resp # <<>>
    /\ procs[1].call.name = <<"a">>
    /\ procs[2].call.name = <<"b">>
    /\ procs[1].ret.val = IntV(1)
    /\ procs[2].ret.val = StrV(<<"x", "&">>)

ClaimedOrder(o) ==
    IF o.name = "GetTorrent"
    THEN <<DName, DSizeInBytes, DLabel, DDirectory, DComplete, DRatio,
           DCreationTime, DFinishedTime, DStartedTime>>
    ELSE <<DComplete, DCompletedBytes, DDownRate, DUpRate, DRatio, DSizeInBytes>>

\* C20: GetTorrent and GetStatus issue their calls in the fixed order, each
\* with the hash as its only argument; at the first call that fails the
\* operation returns a non-nil error naming that command and issues no
\* further call, and it returns a nil error only if every call succeeded.
C20_CallsInOrder ==
    op.name \in SeqOps =>
        LET want == ClaimedOrder(op)
            n == Len(seq.issued)
            m == Len(seq.outcomes)
        IN /\ n <= Len(want)
           /\ \A k \in 1..n :
                 seq.issued[k] = [name |-> want[k], args |-> <<StrV(HashA)>>]
           /\ m \in {n - 1, n}
           /\ \A k \in 1..m : seq.outcomes[k] # NoErr => k = m /\ k = n
           /\ (m = n /\ m > 0 /\ seq.outcomes[m] # NoErr) =>
                 /\ fpc = "done"
                 /\ fres.kind = "error"
                 /\ fres.err # NoErr
                 /\ fres.err.kind = seq.outcomes[m].kind
                 /\ Head(fres.err.msg) = want[m] \o XmlrpcCallFailed
           /\ (fpc = "done" /\ fres.kind = "ok") =>
                 /\ n = Len(want)
                 /\ m = n
                 /\ \A k \in 1..m : seq.outcomes[k] = NoErr
           /\ (fpc = "done" /\ fres.kind = "error") =>
                 seq.outcomes[m] # NoErr

C20_Witness ==
    /\ op.name = "GetTorrent"
    /\ fpc = "done"
    /\ Len(seq.issued) = 3
    /\ seq.outcomes[3].kind = "fault"
    /\ fres.kind = "error"
    /\ Head(fres.err.msg) = DLabel \o XmlrpcCallFailed

\* The command and the parameter list C21 gives an add operation
ClaimedAddCmd(o) ==
    CASE o.name = "Add" -> CmdLoadStart
      [] o.name = "AddStopped" -> CmdLoadNormal
      [] o.name = "AddTorrent" -> CmdLoadRawStart
      [] o.name = "AddTorrentStopped" -> CmdLoadRaw

ClaimedAddParams(o) ==
    <<StrV(<<>>), BytesV(AddData(o))>>
    \o [k \in 1..Len(o.args.extra) |-> StrV(FieldValueString(o.args.extra[k]))]

\* C21: the call of Add, AddStopped, AddTorrent, AddTorrentStopped is
\* load.start, load.normal, load.raw_start, load.raw; its parameters are the
\* empty target, the data, then one parameter <field>.set="<value>" for each
\* extraArg in the order given; with no extraArgs there are exactly two.
C21_AddParameterList ==
    (op.name \in AddOps /\ fpc # "idle") =>
        /\ call.name = ClaimedAddCmd(op)
        /\ call.args = ClaimedAddParams(op)
        /\ Len(op.args.extra) = 0 => Len(call.args) = 2

\* The first element of the result of the k-th call, as a time
ResultTime(k) == TimeUnix(seq.results[k].a[1].i)

\* C22: when all of its calls succeed, GetTorrent returns a Torrent whose
\* Hash is the requested hash, whose Created is the time from
\* d.creation_date, whose Finished is the time from d.timestamp.finished and
\* whose Started is the time from d.timestamp.started.
C22_GetTorrentFields ==
    (op.name = "GetTorrent" /\ fpc = "done" /\ fres.kind = "ok") =>
        /\ fres.val.r.Hash = HashA
        /\ seq.issued[7].name = DCreationTime
        /\ fres.val.r.Created = ResultTime(7)
        /\ seq.issued[8].name = DFinishedTime
        /\ fres.val.r.Finished = ResultTime(8)
        /\ seq.issued[9].name = DStartedTime
        /\ fres.val.r.Started = ResultTime(9)

\* The type IP and Name, or the four counters, expect of their result
ScalarType(o) == IF o.name \in {"IP", "Name"} THEN "string" ELSE "int"

\* C23: IP, Name, DownTotal, DownRate, UpTotal and UpRate are total over
\* decoded results: for every result, an empty array included, they return
\* the first element (or the scalar itself) with a nil error when it has the
\* expected type, and the zero value with an error otherwise; they never
\* abort.
C23_ScalarOpsTotal ==
    (fpc = "done" /\ op.name \in ScalarOps /\ Decoded /\ ret.err = NoErr) =>
        LET v == ret.val
            x == IF v.t = "array" /\ Len(v.a) > 0 THEN v.a[1] ELSE v
        IN /\ fres.kind # "panic"
           /\ IF x.t = ScalarType(op)
              THEN fres = FOk(x)
              ELSE fres.kind = "error" /\ fres.val = ZeroOf(op) /\ fres.err # NoErr

\* C24: a request carries the Basic Authorization header built from
\* BasicUser and BasicPass exactly when both are non-empty; when either is
\* empty (a client built by NewClientWithHTTPClient included) no
\* Authorization header is added and the request is otherwise as
\* NewRequestWithContext made it.
C24_BasicAuthAllOrNothing ==
    req.present =>
        LET made == NewRequestWithContext(client.addr, TextXml, data).req
            both == client.BasicUser # <<>> /\ client.BasicPass # <<>>
        IN /\ req.Auth.set <=> both
           /\ req.Auth.set =>
                 req.Auth.user = client.BasicUser /\ req.Auth.pass = client.BasicPass
           /\ ~both => req = made
           /\ [req EXCEPT !.Auth = NoAuth] = made

C24_Witness ==
    /\ req.present
    /\ client.BasicUser = UserU
    /\ client.BasicPass = PassP
    /\ req.Auth = [set |-> TRUE, user |-> UserU, pass |-> PassP]
    /\ cpc = "do"

====
